---- MODULE Spec2Model ----
(***************************************************************************)
(* A model of the dense order collections of the `orders` crate:           *)
(*   TiedDense   (src/src/collections/tied/complete.rs)                    *)
(*   TotalDense  (src/src/collections/strict/complete.rs)                  *)
(*   ChainIDense (src/src/collections/chain/incomplete.rs)                 *)
(* Each collection is a record of its struct fields.  Every trait method   *)
(* is one action; it leaves in `call` its arguments, what it returned and  *)
(* the collection before it, so that the contracts of the methods are      *)
(* state predicates.  The caller takes the result (Return) before it makes *)
(* the next call.                                                          *)
(*                                                                         *)
(* Vectors are sequences; the code's 0-based index k is At(s, k).          *)
(* usize arithmetic is modelled at a reduced width of UsizeBits bits: every*)
(* length of the model is far below 2^(UsizeBits-1), so which operations   *)
(* overflow is the same as at 64 bits.  `debug` is the build profile: with *)
(* it an overflowing subtraction panics and debug_assert! is compiled in,  *)
(* without it the subtraction wraps.                                       *)
(***************************************************************************)
EXTENDS Integers, Sequences, FiniteSets, TLC

VARIABLES debug, td, tot, cid, call

vars == <<debug, td, tot, cid, call>>

\* ------------------------------------------------------------------ bounds

\* The backing array of a collection holds at most MaxCells indices.
MaxCells == 6

\* Width of usize in the model.
UsizeBits == 16

\* Largest universe a collection is created with, and largest pushed order.
MaxElements == 4

\* Largest universe of a ChainIDense and of a pushed chain, and the most
\* chains a ChainIDense is grown to.
MaxChainElements == MaxCells \div 2

MaxChainOrders == MaxCells \div 2

\* ----------------------------------------------------------------- helpers

ISIZE_MAX == 2^(UsizeBits - 1) - 1

WrapSub(a, b) == (a - b + 2^UsizeBits) % 2^UsizeBits

WrapMul(a, b) == (a * b) % 2^UsizeBits

At(s, k) == s[k + 1]

Set(s, k, x) == [s EXCEPT ![k + 1] = x]

\* s[a..b] of the code: the indices a, a+1, ..., b-1.
Slice(s, a, b) == SubSeq(s, a + 1, b)

\* Vec::truncate(n)
Truncate(s, n) == IF n >= Len(s) THEN s ELSE SubSeq(s, 1, n)

\* slice::copy_within(a..b, dest): a memmove inside one vector.
CopyWithin(s, a, b, dest) ==
    [k \in 1..Len(s) |->
        IF dest < k /\ k <= dest + (b - a) THEN s[a + (k - dest)] ELSE s[k]]

\* Option: None is the empty sequence, Some(x) is <<x>>.
None == <<>>

Some(x) == <<x>>

\* Vec::try_reserve(additional) on a vector of `len` items of `size` bytes:
\* nothing to do for 0, a capacity overflow above isize::MAX bytes, and
\* otherwise whatever the allocator answers.
TryReserve(len, additional, size, alloc) ==
    \/ additional = 0
    \/ (len + additional) * size <= ISIZE_MAX /\ alloc

\* --------------------------------------------------------------- lib.rs

\* unique_and_bounded(elements, order)
unique_and_bounded(elements, order) ==
    \A i \in 1..Len(order) :
        /\ order[i] < elements
        /\ \A j \in 1..Len(order) : i = j \/ order[i] # order[j]

\* ----------------------------------------------------------- TiedRef

\* TiedRef::try_new(order, tied) is Some
TiedRef_try_new(order, tied) ==
    LET correct_len == \/ Len(order) = 0 /\ Len(tied) = 0
                       \/ Len(tied) + 1 = Len(order)
    IN correct_len /\ unique_and_bounded(Len(order), order)

\* The slices a caller can hand to TiedRef::try_new.
RawOrders == UNION {[1..n -> 0..MaxElements] : n \in 0..MaxElements}

RawTies == UNION {[1..n -> BOOLEAN] : n \in 0..MaxElements}

\* Every TiedRef over at most MaxElements elements: the pairs of slices
\* TiedRef::try_new accepts (as an enumerated set).
TiedRefs ==
    {w : w \in {v \in [order : RawOrders, tied : RawTies] :
                    TiedRef_try_new(v.order, v.tied)}}

\* --------------------------------------------------------- TiedDense

\* TiedDense::new(elements)
TiedDense_new(elements) == [orders |-> <<>>, ties |-> <<>>, elements |-> elements]

\* TotalDense::new(elements)
TotalDense_new(elements) == [orders |-> <<>>, elements |-> elements]

\* ChainIDense::new(elements)
ChainIDense_new(elements) ==
    [orders |-> <<>>, order_end |-> <<>>, elements |-> elements]

\* TiedDense::len
TiedDense_len(t) == IF t.elements = 0 THEN 0 ELSE Len(t.orders) \div t.elements

\* The order slice of TiedDense::try_get(i), i < len
TiedOrderAt(t, i) == Slice(t.orders, i * t.elements, (i + 1) * t.elements)

\* The tie slice of TiedDense::try_get(i), i < len
TiedTiesAt(t, i) ==
    Slice(t.ties, i * t.elements - i, (i + 1) * t.elements - i - 1)

\* tests::valid of TiedDense
TiedDense_valid(t) ==
    /\ Len(t.orders) = TiedDense_len(t) * t.elements
    /\ Len(t.ties) = TiedDense_len(t) * (IF t.elements = 0 THEN 0 ELSE t.elements - 1)
    /\ \A i \in 0..(TiedDense_len(t) - 1) :
          /\ Len(TiedOrderAt(t, i)) = t.elements
          /\ Len(TiedTiesAt(t, i)) = t.elements - 1
          /\ unique_and_bounded(t.elements, TiedOrderAt(t, i))

\* Mutant of TiedRemoveRejects: the bound check off by one.
TiedRemoveRejects_OffByOne(t, target) == t.elements < target

\* The guard of TiedDense::remove_element: the target is not an element.
TiedRemoveRejects(t, target) == t.elements <= target

\* The entry written for `el` when `target` is removed (el # target);
\* `el - 1` wraps in a build without overflow checks.
TiedRewriteEntry(target, el) == IF target < el THEN el ELSE WrapSub(el, 1)

\* The loop `for j in 0..elements_old` over order i.
\* st = [orders, ties, skipped, panic]; a panic stops the loop where it is.
RECURSIVE TiedRemoveEntries(_, _, _, _, _, _)
TiedRemoveEntries(st, i, j, target, elements_old, dbg) ==
    IF st.panic \/ j >= elements_old THEN st
    ELSE LET elements_new == elements_old - 1
             el == At(st.orders, i * elements_old + j)
         IN IF target = el
            THEN IF dbg /\ st.skipped # None
                 THEN [st EXCEPT !.panic = TRUE]
                 ELSE TiedRemoveEntries([st EXCEPT !.skipped = Some(j)],
                                        i, j + 1, target, elements_old, dbg)
            ELSE IF dbg /\ target > el /\ el = 0
                 THEN [st EXCEPT !.panic = TRUE]
                 ELSE LET out == TiedRewriteEntry(target, el)
                          at  == IF st.skipped = None
                                 THEN i * elements_new + j
                                 ELSE i * elements_new + j - 1
                      IN TiedRemoveEntries([st EXCEPT !.orders = Set(@, at, out)],
                                           i, j + 1, target, elements_old, dbg)

\* Mutant of TiedRemoveTies: at rank 0 the copy starts at the first flag, so
\* the last flag is the one dropped.
TiedRemoveTies_KeepFirst(ties, i, removed, elements_old) ==
    LET elements_new == elements_old - 1
        start_old == i * (elements_old - 1)
        end_old   == (i + 1) * (elements_old - 1)
        start_new == i * (elements_new - 1)
    IN IF removed = 0
       THEN CopyWithin(ties, start_old, end_old - 1, start_new)
       ELSE IF removed = elements_old - 1
       THEN CopyWithin(ties, start_old, end_old - 1, start_new)
       ELSE LET pre  == At(ties, start_old + removed - 1)
                next == At(ties, start_old + removed)
                c1   == CopyWithin(ties, start_old, start_old + removed - 1, start_new)
                c2   == CopyWithin(c1, start_old + removed, end_old, start_new)
            IN Set(c2, start_new + removed - 1, pre /\ next)

\* The tie flags of order i once the entry at rank `removed` is gone.
TiedRemoveTies(ties, i, removed, elements_old) ==
    LET elements_new == elements_old - 1
        start_old == i * (elements_old - 1)
        end_old   == (i + 1) * (elements_old - 1)
        start_new == i * (elements_new - 1)
    IN IF removed = 0
       THEN CopyWithin(ties, start_old + 1, end_old, start_new)
       ELSE IF removed = elements_old - 1
       THEN CopyWithin(ties, start_old, end_old - 1, start_new)
       ELSE LET pre  == At(ties, start_old + removed - 1)
                next == At(ties, start_old + removed)
                c1   == CopyWithin(ties, start_old, start_old + removed - 1, start_new)
                c2   == CopyWithin(c1, start_old + removed, end_old, start_new)
            IN Set(c2, start_new + removed - 1, pre /\ next)

\* The loop `for i in 0..self.len()`.
RECURSIVE TiedRemoveOrders(_, _, _, _, _, _)
TiedRemoveOrders(st, i, len, target, elements_old, dbg) ==
    IF st.panic \/ i >= len THEN st
    ELSE LET s1 == TiedRemoveEntries([st EXCEPT !.skipped = None],
                                     i, 0, target, elements_old, dbg)
         IN IF s1.panic THEN s1
            ELSE IF s1.skipped = None
            THEN [s1 EXCEPT !.panic = TRUE]
            ELSE TiedRemoveOrders(
                     [s1 EXCEPT !.ties = TiedRemoveTies(@, i, s1.skipped[1], elements_old)],
                     i + 1, len, target, elements_old, dbg)

\* TiedDense::remove_element(target): [self, res]
TiedDense_remove_element(t, target, dbg) ==
    IF TiedRemoveRejects(t, target)
    THEN [self |-> t, res |-> "Err"]
    ELSE IF t.elements = 1
    THEN [self |-> [orders |-> <<>>, ties |-> <<>>, elements |-> 0], res |-> "Ok"]
    ELSE IF TiedDense_len(t) = 0
    THEN [self |-> [t EXCEPT !.elements = @ - 1], res |-> "Ok"]
    ELSE LET len == TiedDense_len(t)
             elements_old == t.elements
             elements_new == t.elements - 1
             st == TiedRemoveOrders(
                       [orders |-> t.orders, ties |-> t.ties, skipped |-> None, panic |-> FALSE],
                       0, len, target, elements_old, dbg)
         IN IF st.panic
            THEN [self |-> [orders |-> st.orders, ties |-> st.ties, elements |-> t.elements],
                  res |-> "panic"]
            ELSE [self |-> [orders |-> Truncate(st.orders, len * elements_new),
                            ties |-> Truncate(st.ties, len * (elements_new - 1)),
                            elements |-> elements_new],
                  res |-> "Ok"]

\* The cardinality check of TiedDense::push.
TiedPushRejects(t, v) == Len(v.order) # t.elements /\ t.elements # 0

\* TiedDense::push(v): [self, res].  `alloc` names the reservation the
\* allocator refuses ("orders", "ties") or is "ok".
TiedDense_push(t, v, dbg, alloc) ==
    IF TiedPushRejects(t, v)
    THEN [self |-> t, res |-> "Elements"]
    ELSE IF ~TryReserve(Len(t.orders), Len(v.order) * t.elements,
                        UsizeBits \div 8, alloc # "orders")
    THEN [self |-> t, res |-> "Alloc"]
    ELSE IF dbg /\ t.elements = 0
    THEN [self |-> t, res |-> "panic"]
    ELSE IF ~TryReserve(Len(t.ties), WrapMul(Len(v.tied), WrapSub(t.elements, 1)),
                        1, alloc # "ties")
    THEN [self |-> t, res |-> "Alloc"]
    ELSE [self |-> [t EXCEPT !.orders = @ \o v.order, !.ties = @ \o v.tied],
          res |-> "Ok"]

\* Mutant of Shuffles: the positions are drawn with replacement.
Shuffles_WithReplacement(v) ==
    {[k \in 1..Len(v) |-> v[p[k]]] : p \in [1..Len(v) -> 1..Len(v)]}

\* SliceRandom::shuffle: every rearrangement of v.
Shuffles(v) ==
    {[k \in 1..Len(v) |-> v[p[k]]] :
        p \in {q \in [1..Len(v) -> 1..Len(v)] :
                  \A a, b \in 1..Len(v) : a = b \/ q[a] # q[b]}}

\* What one round of the loop of TiedDense::generate_uniform draws: a
\* shuffle of 0..elements and elements-1 coin flips.
TiedDraws(elements) ==
    [order : Shuffles([k \in 1..elements |-> k - 1]),
     tied  : [1..(elements - 1) -> BOOLEAN]]

\* The loop `for _ in 0..new_orders`, round k appending draws[k].
RECURSIVE TiedGenerate(_, _, _)
TiedGenerate(t, draws, k) ==
    IF k > Len(draws) THEN t
    ELSE TiedGenerate([t EXCEPT !.orders = @ \o draws[k].order,
                                !.ties = @ \o draws[k].tied], draws, k + 1)

\* Mutant of TiedDense_generate_uniform: the loop runs from the second round.
TiedDense_generate_uniform_FromSecond(t, draws) ==
    IF t.elements = 0 THEN t ELSE TiedGenerate(t, draws, 2)

\* TiedDense::generate_uniform(rng, new_orders), the rng having drawn `draws`.
TiedDense_generate_uniform(t, draws) ==
    IF t.elements = 0 THEN t ELSE TiedGenerate(t, draws, 1)

\* ------------------------------------------------------------- the calls

\* No order argument.
NoOrder == [order |-> <<>>, tied |-> <<>>]

\* Between two calls: the caller has taken the result of the last one.
Idle == call.op = "idle"

\* push(v) on the TiedDense; the allocator is asked only once the cardinality
\* check has passed
TiedPush ==
    /\ Idle
    /\ \E v \in TiedRefs :
       \E alloc \in IF TiedPushRejects(td, v) THEN {"ok"} ELSE {"ok", "orders", "ties"} :
         /\ Len(td.orders) + Len(v.order) <= MaxCells
         /\ LET r == TiedDense_push(td, v, debug, alloc)
            IN /\ td' = r.self
               /\ call' = [op |-> "push", res |-> r.res, n |-> 0, v |-> v, pre |-> td]
    /\ UNCHANGED <<debug, tot, cid>>

\* remove_element(target) on the TiedDense
TiedRemoveElement ==
    /\ Idle
    /\ \E target \in 0..MaxElements :
         LET r == TiedDense_remove_element(td, target, debug)
         IN /\ td' = r.self
            /\ call' = [op |-> "remove_element", res |-> r.res, n |-> target,
                        v |-> NoOrder, pre |-> td]
    /\ UNCHANGED <<debug, tot, cid>>

\* generate_uniform(rng, new_orders) on the TiedDense
TiedGenerateUniform ==
    /\ Idle
    /\ \E new_orders \in 0..MaxCells, alloc \in BOOLEAN :
         /\ Len(td.orders) + new_orders * td.elements <= MaxCells
         /\ IF td.elements # 0 /\ ~alloc
            THEN /\ td' = td
                 /\ call' = [op |-> "generate_uniform", res |-> "abort", n |-> new_orders,
                             v |-> NoOrder, pre |-> td]
            ELSE \E draws \in [1..(IF td.elements = 0 THEN 0 ELSE new_orders)
                                 -> TiedDraws(td.elements)] :
                    /\ td' = TiedDense_generate_uniform(td, draws)
                    /\ call' = [op |-> "generate_uniform", res |-> "Ok", n |-> new_orders,
                                v |-> NoOrder, pre |-> td]
    /\ UNCHANGED <<debug, tot, cid>>

NoCall == [op |-> "idle", res |-> "Ok", n |-> 0, v |-> NoOrder, pre |-> <<>>]

\* The caller takes the result of the call.  A panic unwinds and an abort
\* ends the process: no call follows either.
Return ==
    /\ ~Idle
    /\ call.res \notin {"panic", "abort"}
    /\ call' = NoCall
    /\ UNCHANGED <<debug, td, tot, cid>>

\* TiedDense::new(elements) in either build profile.
InitTied ==
    /\ debug \in BOOLEAN
    /\ \E elements \in 0..MaxElements :
         td = TiedDense_new(elements)
    /\ call = NoCall
    /\ tot = TotalDense_new(0)
    /\ cid = ChainIDense_new(0)

NextTied == TiedPush \/ TiedRemoveElement \/ TiedGenerateUniform \/ Return

SpecTied == InitTied /\ [][NextTied]_vars

\* ------------------------------------------------- TiedDense: the claims

\* A remove_element(target) call on a valid TiedDense has returned `res`.
TiedRemoved(res) ==
    /\ call.op = "remove_element"
    /\ call.res = res
    /\ TiedDense_valid(call.pre)

\* The rank of element `target` in a permutation `order`.
RankOf(order, target) == CHOOSE r \in 0..(Len(order) - 1) : At(order, r) = target

\* `order` without `target`, the larger entries moved down by one.
RECURSIVE WithoutElement(_, _)
WithoutElement(order, target) ==
    IF order = <<>> THEN <<>>
    ELSE LET el == Head(order)
             rest == WithoutElement(Tail(order), target)
         IN IF el = target THEN rest
            ELSE IF el > target THEN <<el - 1>> \o rest
            ELSE <<el>> \o rest

\* The first n orders of the packed array `orders` (stride `elements`), each
\* without `target`, laid out one after another.
RECURSIVE AllWithoutElement(_, _, _, _)
AllWithoutElement(orders, elements, n, target) ==
    IF n = 0 THEN <<>>
    ELSE AllWithoutElement(orders, elements, n - 1, target)
             \o WithoutElement(Slice(orders, (n - 1) * elements, n * elements), target)

\* C1: after a successful remove_element on a valid TiedDense, elements() is
\* one less and every stored order has all its indices below elements() and
\* no index twice.
C1_RemoveKeepsOrdersValid ==
    TiedRemoved("Ok") =>
        /\ td.elements = call.pre.elements - 1
        /\ \A i \in 0..(TiedDense_len(td) - 1) :
              unique_and_bounded(td.elements, TiedOrderAt(td, i))

\* C2: remove_element(target), target < elements, rewrites each stored order
\* as: the entry equal to target dropped, the larger entries decremented, the
\* smaller ones kept, in the same relative order.
C2_RemoveRewritesOrders ==
    TiedRemoved("Ok") =>
        td.orders = AllWithoutElement(call.pre.orders, call.pre.elements,
                                      TiedDense_len(call.pre), call.n)

\* The flags t once the element at interior rank r is gone: the two flags
\* next to it merged by AND.
MergedTies(t, r) ==
    SubSeq(t, 1, r - 1) \o <<t[r] /\ t[r + 1]>> \o SubSeq(t, r + 2, Len(t))

\* C3: when the removed element is at an interior rank r of an order, the
\* order's new tie flags are t[0..r-1], then t[r-1] AND t[r], then t[r+1..].
C3_RemoveMergesInteriorTies ==
    TiedRemoved("Ok") =>
        \A i \in 0..(TiedDense_len(call.pre) - 1) :
            LET r == RankOf(TiedOrderAt(call.pre, i), call.n)
            IN (0 < r /\ r < call.pre.elements - 1) =>
                   TiedTiesAt(td, i) = MergedTies(TiedTiesAt(call.pre, i), r)

\* C4: when the removed element is at rank 0 of an order its new tie flags
\* are the old ones without the first, at the last rank the old ones without
\* the last, whatever the other orders of the collection are.
C4_RemoveDropsBoundaryTie ==
    TiedRemoved("Ok") =>
        /\ call.pre.elements = 1 => td.ties = <<>>
        /\ call.pre.elements > 1 =>
              /\ TiedDense_len(td) = TiedDense_len(call.pre)
              /\ Len(td.ties) = TiedDense_len(td) * (td.elements - 1)
              /\ \A i \in 0..(TiedDense_len(call.pre) - 1) :
                    LET r == RankOf(TiedOrderAt(call.pre, i), call.n)
                        t == TiedTiesAt(call.pre, i)
                    IN /\ r = 0 => TiedTiesAt(td, i) = Tail(t)
                       /\ r = call.pre.elements - 1 =>
                              TiedTiesAt(td, i) = SubSeq(t, 1, Len(t) - 1)

\* C4 witness: a removal from two orders of three elements, the element first
\* in one and last in the other, with a tie flag set in each.
C4_Witness ==
    /\ TiedRemoved("Ok")
    /\ call.pre.elements = 3
    /\ TiedDense_len(call.pre) = 2
    /\ RankOf(TiedOrderAt(call.pre, 0), call.n) = 2
    /\ RankOf(TiedOrderAt(call.pre, 1), call.n) = 0
    /\ TiedTiesAt(call.pre, 0) = <<TRUE, FALSE>>
    /\ TiedTiesAt(call.pre, 1) = <<FALSE, TRUE>>

\* C5: remove_element(target) with target >= elements() returns an error and
\* leaves orders, ties and elements as they were.
C5_RemoveRejectsBadTarget ==
    (call.op = "remove_element" /\ call.n >= call.pre.elements) =>
        /\ call.res = "Err"
        /\ td = call.pre

\* C5 witness: a rejected removal on a collection that holds orders.
C5_Witness ==
    /\ call.op = "remove_element"
    /\ call.n >= call.pre.elements
    /\ call.res = "Err"
    /\ TiedDense_len(call.pre) = 2

\* C9: a push of an order whose cardinality differs from elements() returns
\* AddError::Elements and leaves the collection as it was, for every
\* elements() including 0.
C9_PushRejectsCardinality ==
    (call.op = "push" /\ Len(call.v.order) # call.pre.elements) =>
        /\ call.res = "Elements"
        /\ td = call.pre

\* ---------------------------------------------------------------- lib.rs

\* The stable sort of get_order: the indices of v by value, equal values in
\* index order (k is inserted behind every index whose value is not larger).
RECURSIVE SortedIndices(_, _)
SortedIndices(v, n) ==
    IF n = 0 THEN <<>>
    ELSE LET tmp == SortedIndices(v, n - 1)
             before == SelectSeq(tmp, LAMBDA x : v[x] <= v[n])
             after == SelectSeq(tmp, LAMBDA x : v[x] > v[n])
         IN before \o <<n>> \o after

\* The walk of get_order over the sorted pairs tmp[k..]: `i` counts the
\* distinct values passed, `current` is the last of them.
RECURSIVE RankWalk(_, _, _, _, _, _)
RankWalk(v, tmp, k, current, i, out) ==
    IF k > Len(tmp) THEN out
    ELSE LET x == tmp[k]
             i2 == IF v[x] # current THEN i + 1 ELSE i
         IN RankWalk(v, tmp, k + 1, v[x], i2, [out EXCEPT ![x] = i2])

\* get_order(v, false)
get_order(v) ==
    IF Len(v) = 0 THEN <<>>
    ELSE IF Len(v) = 1 THEN <<0>>
    ELSE LET tmp == SortedIndices(v, Len(v))
         IN RankWalk(v, tmp, 2, v[tmp[1]], 0, [k \in 1..Len(v) |-> 0])

\* -------------------------------------------------------- TotalDense

\* Every TotalRef over at most MaxElements elements: a ranking of all of
\* 0..elements.
TotalRefs ==
    {w : w \in {v \in [order : RawOrders] : unique_and_bounded(Len(v.order), v.order)}}

\* TotalDense::len
TotalDense_len(t) == IF t.elements = 0 THEN 0 ELSE Len(t.orders) \div t.elements

\* The slice of TotalDense::try_get(i), i < len
TotalOrderAt(t, i) == Slice(t.orders, i * t.elements, (i + 1) * t.elements)

\* tests::valid of TotalDense
TotalDense_valid(t) ==
    IF t.elements = 0 THEN t.orders = <<>>
    ELSE /\ Len(t.orders) % t.elements = 0
         /\ \A i \in 0..(TotalDense_len(t) - 1) :
               /\ \A j \in 0..(t.elements - 1) :
                     /\ At(t.orders, i * t.elements + j) < t.elements
                     /\ \A k \in 0..(j - 1) :
                           At(t.orders, i * t.elements + k) # At(t.orders, i * t.elements + j)
               /\ \A s \in 0..(t.elements - 1) :
                     \E j \in 0..(t.elements - 1) : At(t.orders, i * t.elements + j) = s

\* The cardinality check of TotalDense::add.
TotalAddRejects(t, v) == Len(v.order) # t.elements \/ t.elements = 0

\* TotalDense::add(v): [self, res]
TotalDense_add(t, v, alloc) ==
    IF TotalAddRejects(t, v)
    THEN [self |-> t, res |-> "Elements"]
    ELSE IF ~TryReserve(Len(t.orders), t.elements, UsizeBits \div 8, alloc)
    THEN [self |-> t, res |-> "Alloc"]
    ELSE [self |-> [t EXCEPT !.orders = @ \o v.order], res |-> "Ok"]

\* The loop `for j in 0..self.elements` over order i.
\* st = [orders, t_i, offset, panic]; targets[t_i] panics past the end.
RECURSIVE TotalRemoveEntries(_, _, _, _, _, _)
TotalRemoveEntries(st, i, j, targets, elements, new_elements) ==
    IF st.panic \/ j >= elements THEN st
    ELSE IF st.t_i >= Len(targets)
    THEN [st EXCEPT !.panic = TRUE]
    ELSE IF At(targets, st.t_i) = j
    THEN TotalRemoveEntries([st EXCEPT !.t_i = @ + 1, !.offset = @ + 1],
                            i, j + 1, targets, elements, new_elements)
    ELSE LET old_index == i * elements + j
             new_index == i * new_elements + (j - st.offset)
         IN TotalRemoveEntries(
                [st EXCEPT !.orders = Set(@, new_index, At(st.orders, old_index))],
                i, j + 1, targets, elements, new_elements)

\* The loop `for i in 0..self.len()`: the entries of order i are moved, then
\* the moved slice is replaced by its ranks.
RECURSIVE TotalRemoveOrders(_, _, _, _, _, _)
TotalRemoveOrders(st, i, len, targets, elements, new_elements) ==
    IF st.panic \/ i >= len THEN st
    ELSE LET s1 == TotalRemoveEntries([st EXCEPT !.t_i = 0, !.offset = 0],
                                      i, 0, targets, elements, new_elements)
             new_order == Slice(s1.orders, i * new_elements, (i + 1) * new_elements)
             ranks == get_order(new_order)
         IN IF s1.panic THEN s1
            ELSE TotalRemoveOrders(
                     [s1 EXCEPT !.orders =
                         [k \in 1..Len(@) |->
                             IF i * new_elements < k /\ k <= (i + 1) * new_elements
                             THEN ranks[k - i * new_elements] ELSE @[k]]],
                     i + 1, len, targets, elements, new_elements)

\* TotalDense::remove_element(target): [self, res]
TotalDense_remove_element(t, target, dbg) ==
    LET targets == <<target>>
    IN IF dbg /\ t.elements < Len(targets)
       THEN [self |-> t, res |-> "panic"]
       ELSE LET new_elements == WrapSub(t.elements, Len(targets))
                len == TotalDense_len(t)
                st == TotalRemoveOrders(
                          [orders |-> t.orders, t_i |-> 0, offset |-> 0, panic |-> FALSE],
                          0, len, targets, t.elements, new_elements)
            IN IF st.panic
               THEN [self |-> [t EXCEPT !.orders = st.orders], res |-> "panic"]
               ELSE [self |-> [orders |-> Truncate(st.orders, WrapMul(len, new_elements)),
                               elements |-> new_elements],
                     res |-> "Ok"]

\* The loop of TotalDense::generate_uniform, round k appending shuffle k.
RECURSIVE TotalGenerate(_, _, _)
TotalGenerate(t, draws, k) ==
    IF k > Len(draws) THEN t
    ELSE TotalGenerate([t EXCEPT !.orders = @ \o draws[k]], draws, k + 1)

\* TotalDense::generate_uniform(rng, new_orders), the rng having drawn `draws`.
TotalDense_generate_uniform(t, draws) ==
    IF t.elements = 0 THEN t ELSE TotalGenerate(t, draws, 1)

\* add(v) on the TotalDense
TotalAdd ==
    /\ Idle
    /\ \E v \in TotalRefs :
       \E alloc \in IF TotalAddRejects(tot, v) THEN {TRUE} ELSE BOOLEAN :
         /\ Len(tot.orders) + Len(v.order) <= MaxCells
         /\ LET r == TotalDense_add(tot, v, alloc)
            IN /\ tot' = r.self
               /\ call' = [op |-> "add", res |-> r.res, n |-> 0, v |-> v, pre |-> tot]
    /\ UNCHANGED <<debug, td, cid>>

\* remove_element(target) on the TotalDense (not explored once elements has
\* wrapped around)
TotalRemoveElement ==
    /\ Idle
    /\ tot.elements <= MaxElements
    /\ \E target \in 0..MaxElements :
         LET r == TotalDense_remove_element(tot, target, debug)
         IN /\ tot' = r.self
            /\ call' = [op |-> "remove_element", res |-> r.res, n |-> target,
                        v |-> NoOrder, pre |-> tot]
    /\ UNCHANGED <<debug, td, cid>>

\* generate_uniform(rng, new_orders) on the TotalDense; collecting
\* 0..elements panics with a capacity overflow once elements has wrapped.
TotalGenerateUniform ==
    /\ Idle
    /\ \E new_orders \in 0..MaxCells, alloc \in BOOLEAN :
         IF tot.elements * (UsizeBits \div 8) > ISIZE_MAX
         THEN /\ tot' = tot
              /\ call' = [op |-> "generate_uniform", res |-> "panic", n |-> new_orders,
                          v |-> NoOrder, pre |-> tot]
         ELSE /\ Len(tot.orders) + new_orders * tot.elements <= MaxCells
              /\ IF tot.elements # 0 /\ ~alloc
                 THEN /\ tot' = tot
                      /\ call' = [op |-> "generate_uniform", res |-> "abort",
                                  n |-> new_orders, v |-> NoOrder, pre |-> tot]
                 ELSE \E draws \in [1..(IF tot.elements = 0 THEN 0 ELSE new_orders)
                                      -> Shuffles([k \in 1..tot.elements |-> k - 1])] :
                         /\ tot' = TotalDense_generate_uniform(tot, draws)
                         /\ call' = [op |-> "generate_uniform", res |-> "Ok",
                                     n |-> new_orders, v |-> NoOrder, pre |-> tot]
    /\ UNCHANGED <<debug, td, cid>>

\* TotalDense::new(elements) in either build profile.
InitTotal ==
    /\ debug \in BOOLEAN
    /\ \E elements \in 0..MaxElements : tot = TotalDense_new(elements)
    /\ call = NoCall
    /\ td = TiedDense_new(0)
    /\ cid = ChainIDense_new(0)

NextTotal == TotalAdd \/ TotalRemoveElement \/ TotalGenerateUniform \/ Return

SpecTotal == InitTotal /\ [][NextTotal]_vars

\* ------------------------------------------------ TotalDense: the claims

\* C6: TotalDense::remove_element(target) with target >= elements() fails
\* with an error and leaves orders and elements as they were.
C6_TotalRemoveRejectsBadTarget ==
    (call.op = "remove_element" /\ call.n >= call.pre.elements) =>
        /\ call.res = "Err"
        /\ tot = call.pre

\* C7: on a valid TotalDense that holds orders, remove_element(target) with
\* target < elements() does not panic, returns Ok, keeps len(), takes one off
\* elements(), and leaves each order without its entry equal to target, the
\* larger entries decremented.
C7_TotalRemoveRewritesOrders ==
    (/\ call.op = "remove_element"
     /\ TotalDense_valid(call.pre)
     /\ TotalDense_len(call.pre) > 0
     /\ call.n < call.pre.elements) =>
        /\ call.res = "Ok"
        /\ tot.elements = call.pre.elements - 1
        /\ tot.elements > 0 => TotalDense_len(tot) = TotalDense_len(call.pre)
        /\ tot.orders = AllWithoutElement(call.pre.orders, call.pre.elements,
                                          TotalDense_len(call.pre), call.n)

\* ------------------------------------------------------- ChainIDense

\* Every ChainIRef over at most MaxChainElements elements: the slices
\* ChainIRef::try_new accepts.
ChainIRefs ==
    {w : w \in {v \in [elements : 0..MaxChainElements, order : RawOrders] :
                    unique_and_bounded(v.elements, v.order)}}

\* ChainIDense::len
ChainIDense_len(c) == Len(c.order_end)

\* The slice of ChainIDense::try_get(i), i < len
ChainOrderAt(c, i) ==
    LET start == IF i = 0 THEN 0 ELSE At(c.order_end, i - 1)
        end == At(c.order_end, i)
    IN Slice(c.orders, start, end)

\* ChainIRef::try_new(elements, order)
ChainIRef_try_new(elements, order) ==
    IF unique_and_bounded(elements, order)
    THEN Some([elements |-> elements, order |-> order])
    ELSE None

\* tests::valid of ChainIDense
ChainIDense_valid(c) ==
    /\ \A i \in 0..(ChainIDense_len(c) - 1) :
          unique_and_bounded(c.elements, ChainOrderAt(c, i))
    /\ \A k \in 1..Len(c.order_end) : c.order_end[k] <= Len(c.orders)
    /\ \A k \in 1..(Len(c.order_end) - 1) : c.order_end[k] <= c.order_end[k + 1]

\* Mutant of ChainPushRejects: the length of the chain is compared, not its
\* universe.
ChainPushRejects_ByLength(c, v) == Len(v.order) # c.elements

\* The universe check of ChainIDense::push.
ChainPushRejects(c, v) == v.elements # c.elements

\* Mutant of ChainLastEnd: the new chain is taken to start at 0.
ChainLastEnd_Zero(c) == 0

\* self.order_end.last().unwrap_or(&0)
ChainLastEnd(c) == IF c.order_end = <<>> THEN 0 ELSE c.order_end[Len(c.order_end)]

\* ChainIDense::push(v): [self, res].  Vec::reserve does not return when the
\* allocator refuses.
ChainIDense_push(c, v, alloc) ==
    IF ChainPushRejects(c, v)
    THEN [self |-> c, res |-> "Elements"]
    ELSE IF Len(v.order) # 0 /\ ~alloc
    THEN [self |-> c, res |-> "abort"]
    ELSE [self |-> [c EXCEPT !.order_end = Append(@, ChainLastEnd(c) + Len(v.order)),
                             !.orders = @ \o v.order],
          res |-> "Ok"]

\* ChainIDense::remove_element(target): todo!()
ChainIDense_remove_element(c, target) == [self |-> c, res |-> "panic"]

\* Mutant of ChainDraws: the drawn length is not incremented.
ChainDraws_FromZero(elements) ==
    [elements : 0..(elements - 1), v : Shuffles([k \in 1..elements |-> k - 1])]

\* What one round of the loop of ChainIDense::generate_uniform draws: a
\* length in 1..=elements and a shuffle of 0..elements.
ChainDraws(elements) ==
    [elements : 1..elements, v : Shuffles([k \in 1..elements |-> k - 1])]

\* The loop `for _ in 0..new_orders`, round k appending the drawn prefix.
RECURSIVE ChainGenerate(_, _, _)
ChainGenerate(c, draws, k) ==
    IF k > Len(draws) THEN c
    ELSE ChainGenerate(
             [c EXCEPT !.orders = @ \o SubSeq(draws[k].v, 1, draws[k].elements),
                       !.order_end = Append(@, ChainLastEnd(c) + draws[k].elements)],
             draws, k + 1)

\* Mutant of ChainIDense_generate_uniform: without the early return, one
\* empty chain is recorded whatever the universe.
ChainIDense_generate_uniform_NoReturn(c, draws) ==
    IF c.elements = 0
    THEN [c EXCEPT !.order_end = Append(@, ChainLastEnd(c))]
    ELSE ChainGenerate(c, draws, 1)

\* ChainIDense::generate_uniform(rng, new_orders), the rng having drawn `draws`.
ChainIDense_generate_uniform(c, draws) ==
    IF c.elements = 0 THEN c ELSE ChainGenerate(c, draws, 1)

\* No chain argument.
NoChain == [elements |-> 0, order |-> <<>>]

\* ChainIDense::try_get(i): [res, v] with res "None", "Some" (v the chain) or
\* "panic" (a slice out of range, or ChainIRef::new unwrapping a None).
ChainIDense_try_get(c, i) ==
    IF i < ChainIDense_len(c)
    THEN LET start == IF i = 0 THEN 0 ELSE At(c.order_end, i - 1)
             end == At(c.order_end, i)
         IN IF start > end \/ end > Len(c.orders)
            THEN [res |-> "panic", v |-> NoChain]
            ELSE LET r == ChainIRef_try_new(c.elements, Slice(c.orders, start, end))
                 IN IF r = None
                    THEN [res |-> "panic", v |-> NoChain]
                    ELSE [res |-> "Some", v |-> r[1]]
    ELSE [res |-> "None", v |-> NoChain]

\* Option::unwrap on the result of a try_get
Unwrap(r, none) ==
    IF r.res = "Some" THEN r ELSE [res |-> "panic", v |-> none]

\* DenseOrders::get(i) on a ChainIDense: try_get(i).unwrap()
ChainIDense_get(c, i) == Unwrap(ChainIDense_try_get(c, i), NoChain)

\* push(v) on the ChainIDense
ChainPush ==
    /\ Idle
    /\ \E v \in ChainIRefs :
       \E alloc \in IF ChainPushRejects(cid, v) THEN {TRUE} ELSE BOOLEAN :
         /\ Len(cid.orders) + Len(v.order) <= MaxCells
         /\ Len(cid.order_end) < MaxChainOrders
         /\ LET r == ChainIDense_push(cid, v, alloc)
            IN /\ cid' = r.self
               /\ call' = [op |-> "push", res |-> r.res, n |-> 0, v |-> v, pre |-> cid]
    /\ UNCHANGED <<debug, td, tot>>

\* remove_element(target) on the ChainIDense
ChainRemoveElement ==
    /\ Idle
    /\ \E target \in 0..MaxChainElements :
         LET r == ChainIDense_remove_element(cid, target)
         IN /\ cid' = r.self
            /\ call' = [op |-> "remove_element", res |-> r.res, n |-> target,
                        v |-> NoChain, pre |-> cid]
    /\ UNCHANGED <<debug, td, tot>>

\* generate_uniform(rng, new_orders) on the ChainIDense
ChainGenerateUniform ==
    /\ Idle
    /\ \E new_orders \in 0..MaxChainOrders, alloc \in BOOLEAN :
         /\ Len(cid.orders) + new_orders * cid.elements <= MaxCells
         /\ Len(cid.order_end) + new_orders <= MaxChainOrders
         /\ IF cid.elements # 0 /\ ~alloc
            THEN /\ cid' = cid
                 /\ call' = [op |-> "generate_uniform", res |-> "abort", n |-> new_orders,
                             v |-> NoChain, pre |-> cid]
            ELSE \E draws \in [1..(IF cid.elements = 0 THEN 0 ELSE new_orders)
                                 -> ChainDraws(cid.elements)] :
                    /\ cid' = ChainIDense_generate_uniform(cid, draws)
                    /\ call' = [op |-> "generate_uniform", res |-> "Ok", n |-> new_orders,
                                v |-> NoChain, pre |-> cid]
    /\ UNCHANGED <<debug, td, tot>>

\* ChainIDense::new(elements); nothing in ChainIDense depends on the build
\* profile.
InitChain ==
    /\ debug = FALSE
    /\ \E elements \in 0..MaxChainElements : cid = ChainIDense_new(elements)
    /\ call = NoCall
    /\ td = TiedDense_new(0)
    /\ tot = TotalDense_new(0)

NextChain == ChainPush \/ ChainRemoveElement \/ ChainGenerateUniform \/ Return

SpecChain == InitChain /\ [][NextChain]_vars

\* ----------------------------------------------- ChainIDense: the claims

\* C8: ChainIDense::remove_element(target) with target < elements() returns
\* success, takes one off elements(), and leaves every stored chain without
\* duplicates and with all entries below elements().
C8_ChainRemoveSucceeds ==
    (call.op = "remove_element" /\ call.n < call.pre.elements) =>
        /\ call.res = "Ok"
        /\ cid.elements = call.pre.elements - 1
        /\ \A i \in 0..(ChainIDense_len(cid) - 1) :
              unique_and_bounded(cid.elements, ChainOrderAt(cid, i))

\* C10: a push of a chain whose universe size differs from the collection's
\* returns AddError::Elements and leaves orders, order_end and len() as they
\* were.
C10_ChainPushRejectsUniverse ==
    (call.op = "push" /\ call.v.elements # call.pre.elements) =>
        /\ call.res = "Elements"
        /\ cid.orders = call.pre.orders
        /\ cid.order_end = call.pre.order_end
        /\ ChainIDense_len(cid) = ChainIDense_len(call.pre)

\* C10 witness: a chain as long as the collection's universe, but over
\* another universe, is refused by a collection that holds chains.
C10_Witness ==
    /\ call.op = "push"
    /\ call.v.elements # call.pre.elements
    /\ Len(call.v.order) = call.pre.elements
    /\ ChainIDense_len(call.pre) = 2
    /\ call.res = "Elements"

\* C11: a successful ChainIDense::push(v) increases len() by one, appends the
\* end offset (previous last offset, or 0, plus v.len()), makes get(len()-1)
\* equal to v and leaves get(i) as it was for every earlier index i.
C11_ChainPushAppends ==
    (call.op = "push" /\ call.res = "Ok") =>
        LET pre == call.pre
            last == IF pre.order_end = <<>> THEN 0
                    ELSE pre.order_end[Len(pre.order_end)]
        IN /\ ChainIDense_len(cid) = ChainIDense_len(pre) + 1
           /\ cid.order_end = Append(pre.order_end, last + Len(call.v.order))
           /\ ChainIDense_get(cid, ChainIDense_len(cid) - 1) = [res |-> "Some", v |-> call.v]
           /\ \A i \in 0..(ChainIDense_len(pre) - 1) :
                 ChainIDense_get(cid, i) = ChainIDense_get(pre, i)

\* C11 witness: a chain of two elements is pushed after two stored chains,
\* the first of them empty.
C11_Witness ==
    /\ call.op = "push"
    /\ call.res = "Ok"
    /\ ChainIDense_len(call.pre) = 2
    /\ ChainOrderAt(call.pre, 0) = <<>>
    /\ ChainOrderAt(call.pre, 1) # <<>>
    /\ Len(call.v.order) = 2

\* ------------------------------------- generate_uniform on new collections

\* None of the three collections holds an order yet.
AllNew ==
    /\ td = TiedDense_new(td.elements)
    /\ tot = TotalDense_new(tot.elements)
    /\ cid = ChainIDense_new(cid.elements)

\* new(elements) of every kind, for one universe size (the ChainIDense's
\* capped at MaxChainElements).
InitGenerate ==
    /\ debug = FALSE
    /\ \E elements \in 0..MaxElements :
         /\ td = TiedDense_new(elements)
         /\ tot = TotalDense_new(elements)
         /\ cid = ChainIDense_new(IF elements <= MaxChainElements
                                  THEN elements ELSE MaxChainElements)
    /\ call = NoCall

TiedGenerateNew == AllNew /\ TiedGenerateUniform

TotalGenerateNew == AllNew /\ TotalGenerateUniform

ChainGenerateNew == AllNew /\ ChainGenerateUniform

NextGenerate == TiedGenerateNew \/ TotalGenerateNew \/ ChainGenerateNew \/ Return

SpecGenerate == InitGenerate /\ [][NextGenerate]_vars

\* The kind of collection the last call was made on.
CallOn ==
    IF Idle THEN "none"
    ELSE IF "ties" \in DOMAIN call.pre THEN "TiedDense"
    ELSE IF "order_end" \in DOMAIN call.pre THEN "ChainIDense"
    ELSE "TotalDense"

\* len() of the collection the last call was made on, after the call.
CallLen ==
    CASE CallOn = "TiedDense" -> TiedDense_len(td)
      [] CallOn = "TotalDense" -> TotalDense_len(tot)
      [] CallOn = "ChainIDense" -> ChainIDense_len(cid)
      [] OTHER -> 0

\* The collection the last call was made on was newly created.
CallOnNew ==
    CASE CallOn = "TiedDense" -> call.pre = TiedDense_new(call.pre.elements)
      [] CallOn = "TotalDense" -> call.pre = TotalDense_new(call.pre.elements)
      [] CallOn = "ChainIDense" -> call.pre = ChainIDense_new(call.pre.elements)
      [] OTHER -> FALSE

\* C12 as stated: for every dense kind, every elements value and every
\* count, generate_uniform(rng, count) on a newly created collection gives
\* len() == count.
C12_GenerateGivesCount_Any ==
    (call.op = "generate_uniform" /\ call.res = "Ok" /\ CallOnNew) =>
        CallLen = call.n

\* C12, amended: for every dense kind, every elements value above 0 and every
\* count, generate_uniform(rng, count) on a newly created collection gives
\* len() == count; with elements() == 0 the call adds nothing and len() is 0.
C12_GenerateGivesCount ==
    (call.op = "generate_uniform" /\ call.res = "Ok" /\ CallOnNew) =>
        CallLen = IF call.pre.elements = 0 THEN 0 ELSE call.n

\* C12 witness: two orders over three elements are generated into a new
\* TiedDense.
C12_Witness ==
    /\ call.op = "generate_uniform"
    /\ call.res = "Ok"
    /\ CallOn = "TiedDense"
    /\ CallOnNew
    /\ call.pre.elements = 3
    /\ call.n = 2
    /\ TiedDense_len(td) = 2

\* The collection the last call was made on, after the call.
CallSelf ==
    CASE CallOn = "TiedDense" -> td
      [] CallOn = "TotalDense" -> tot
      [] CallOn = "ChainIDense" -> cid
      [] OTHER -> <<>>

\* len() of the collection the last call was made on, before the call.
CallPreLen ==
    CASE CallOn = "TiedDense" -> TiedDense_len(call.pre)
      [] CallOn = "TotalDense" -> TotalDense_len(call.pre)
      [] CallOn = "ChainIDense" -> ChainIDense_len(call.pre)
      [] OTHER -> 0

C14_TotalGenerateValid ==
    (call.op = "generate_uniform" /\ call.res = "Ok") => TotalDense_valid(tot)

\* C14 witness: two orders over two elements are generated after an order
\* that was added.
C14_Witness ==
    /\ call.op = "generate_uniform"
    /\ call.res = "Ok"
    /\ call.pre.elements = 2
    /\ TotalDense_len(call.pre) = 1
    /\ call.n = 2
    /\ TotalDense_len(tot) = 3

\* C15: every order appended by ChainIDense::generate_uniform (elements > 0)
\* is without duplicates, has every entry below elements, and has a length
\* between 1 and elements inclusive, whatever the random choices.
C15_ChainGenerateValidOrders ==
    (call.op = "generate_uniform" /\ call.res = "Ok" /\ call.pre.elements > 0) =>
        \A i \in ChainIDense_len(call.pre)..(ChainIDense_len(cid) - 1) :
            LET order == ChainOrderAt(cid, i)
            IN /\ unique_and_bounded(cid.elements, order)
               /\ 1 <= Len(order)
               /\ Len(order) <= cid.elements

\* C15 witness: a chain of one element and a chain of two are generated
\* after a chain that was pushed.
C15_Witness ==
    /\ call.op = "generate_uniform"
    /\ call.res = "Ok"
    /\ call.pre.elements = 2
    /\ ChainIDense_len(call.pre) = 1
    /\ ChainIDense_len(cid) = 3
    /\ Len(ChainOrderAt(cid, 1)) = 1
    /\ Len(ChainOrderAt(cid, 2)) = 2

\* ------------------------------------------- a TiedDense that only grows

\* generate_uniform and push on a TiedDense::new(elements), no remove_element.
NextTiedGrow == TiedPush \/ TiedGenerateUniform \/ Return

SpecTiedGrow == InitTied /\ [][NextTiedGrow]_vars

\* C16: after any sequence of generate_uniform calls and successful pushes on
\* a TiedDense created with new(elements), orders.len() == len() * elements,
\* ties.len() == len() * (elements - 1, saturating at 0), and every stored
\* order is a permutation of 0..elements with elements - 1 tie flags.
C16_TiedGrowValid == TiedDense_valid(td)

\* ------------------------------------------------------ try_get and get

\* TiedDense::try_get(i): [res, v] with res "None", "Some" (v the order) or
\* "panic" (a slice out of range, or TiedRef::new unwrapping a None).
TiedDense_try_get(t, i) ==
    IF i < TiedDense_len(t)
    THEN LET start == i * t.elements
             end == (i + 1) * t.elements
         IN IF end > Len(t.orders) \/ end - i - 1 > Len(t.ties)
            THEN [res |-> "panic", v |-> NoOrder]
            ELSE LET order == Slice(t.orders, start, end)
                     tied == Slice(t.ties, start - i, end - i - 1)
                 IN IF TiedRef_try_new(order, tied)
                    THEN [res |-> "Some", v |-> [order |-> order, tied |-> tied]]
                    ELSE [res |-> "panic", v |-> NoOrder]
    ELSE [res |-> "None", v |-> NoOrder]

\* DenseOrders::get(i) on a TiedDense
TiedDense_get(t, i) == Unwrap(TiedDense_try_get(t, i), NoOrder)

\* try_get(i) on the TiedDense, i up to one past len()
TiedTryGet ==
    /\ Idle
    /\ cid = ChainIDense_new(0)
    /\ \E i \in 0..(TiedDense_len(td) + 1) :
         LET r == TiedDense_try_get(td, i)
         IN call' = [op |-> "try_get", res |-> r.res, n |-> i, v |-> r.v, pre |-> td]
    /\ UNCHANGED <<debug, td, tot, cid>>

\* get(i) on the TiedDense
TiedGet ==
    /\ Idle
    /\ cid = ChainIDense_new(0)
    /\ \E i \in 0..(TiedDense_len(td) + 1) :
         LET r == TiedDense_get(td, i)
         IN call' = [op |-> "get", res |-> r.res, n |-> i, v |-> r.v, pre |-> td]
    /\ UNCHANGED <<debug, td, tot, cid>>

\* try_get(i) on the ChainIDense
ChainTryGet ==
    /\ Idle
    /\ td = TiedDense_new(0)
    /\ \E i \in 0..(ChainIDense_len(cid) + 1) :
         LET r == ChainIDense_try_get(cid, i)
         IN call' = [op |-> "try_get", res |-> r.res, n |-> i, v |-> r.v, pre |-> cid]
    /\ UNCHANGED <<debug, td, tot, cid>>

\* get(i) on the ChainIDense
ChainGet ==
    /\ Idle
    /\ td = TiedDense_new(0)
    /\ \E i \in 0..(ChainIDense_len(cid) + 1) :
         LET r == ChainIDense_get(cid, i)
         IN call' = [op |-> "get", res |-> r.res, n |-> i, v |-> r.v, pre |-> cid]
    /\ UNCHANGED <<debug, td, tot, cid>>

\* A TiedDense::new(elements) beside an untouched ChainIDense, or a
\* ChainIDense::new(elements) beside an untouched TiedDense.
InitGet ==
    /\ debug \in BOOLEAN
    /\ \E elements \in 0..MaxElements :
         IF elements <= MaxChainElements
         THEN \E kind \in {"TiedDense", "ChainIDense"} :
                /\ td = TiedDense_new(IF kind = "TiedDense" THEN elements ELSE 0)
                /\ cid = ChainIDense_new(IF kind = "TiedDense" THEN 0 ELSE elements)
         ELSE /\ td = TiedDense_new(elements)
              /\ cid = ChainIDense_new(0)
    /\ tot = TotalDense_new(0)
    /\ call = NoCall

\* The calls on the TiedDense while the ChainIDense is untouched.
TiedCalls ==
    /\ cid = ChainIDense_new(0)
    /\ (TiedPush \/ TiedRemoveElement \/ TiedGenerateUniform)

\* The calls on the ChainIDense while the TiedDense is untouched.
ChainCalls ==
    /\ td = TiedDense_new(0)
    /\ (ChainPush \/ ChainGenerateUniform)

NextGet ==
    TiedCalls \/ ChainCalls \/ TiedTryGet \/ TiedGet \/ ChainTryGet \/ ChainGet \/ Return

SpecGet == InitGet /\ [][NextGet]_vars

\* The i-th stored order of the collection the last call was made on, as the
\* slices C17 names.
CallStored(i) ==
    LET c == call.pre
    IN IF CallOn = "ChainIDense"
       THEN [elements |-> c.elements,
             order |-> Slice(c.orders, IF i = 0 THEN 0 ELSE At(c.order_end, i - 1),
                             At(c.order_end, i))]
       ELSE [order |-> Slice(c.orders, i * c.elements, (i + 1) * c.elements),
             tied |-> Slice(c.ties, i * (c.elements - 1), (i + 1) * (c.elements - 1))]

\* C17: try_get(i) returns None exactly when i >= len() and otherwise returns
\* the i-th stored order (ChainIDense: the slice between the end offsets i-1,
\* or 0, and i; TiedDense: the order slice [i*elements, (i+1)*elements) with
\* the tie slice [i*(elements-1), (i+1)*(elements-1))); get(i) panics exactly
\* when i >= len().
C17_TryGetReturnsStored ==
    /\ call.op = "try_get" =>
          IF call.n >= CallPreLen
          THEN call.res = "None"
          ELSE call.res = "Some" /\ call.v = CallStored(call.n)
    /\ call.op = "get" =>
          IF call.n >= CallPreLen
          THEN call.res = "panic"
          ELSE call.res = "Some" /\ call.v = CallStored(call.n)

\* ------------------------------------------------ TotalDense into TiedDense

\* impl From<TotalDense> for TiedDense: [self, res].  `value.elements - 1`
\* panics on underflow with overflow checks and wraps without them;
\* vec![false; n] panics with a capacity overflow above isize::MAX.
TiedDense_from_TotalDense(value, dbg) ==
    LET orders == TotalDense_len(value)
    IN IF value.elements = 0 /\ dbg
       THEN [self |-> TiedDense_new(0), res |-> "panic"]
       ELSE LET n == WrapMul(WrapSub(value.elements, 1), orders)
            IN IF n > ISIZE_MAX
               THEN [self |-> TiedDense_new(0), res |-> "panic"]
               ELSE [self |-> [orders |-> value.orders,
                               ties |-> [k \in 1..n |-> FALSE],
                               elements |-> value.elements],
                     res |-> "Ok"]

\* TiedDense::from(tot): the result is left in call.v
TotalIntoTied ==
    /\ Idle
    /\ LET r == TiedDense_from_TotalDense(tot, debug)
       IN call' = [op |-> "from", res |-> r.res, n |-> 0, v |-> r.self, pre |-> tot]
    /\ UNCHANGED <<debug, td, tot, cid>>

NextTotalInto == NextTotal \/ TotalIntoTied

SpecTotalInto == InitTotal /\ [][NextTotalInto]_vars

\* C18: converting any valid TotalDense (any elements, 0 included, any len)
\* into a TiedDense completes and yields a collection with the same elements
\* and len, the same index sequences, and every tie flag false.
C18_TotalIntoTiedNoTies ==
    (call.op = "from" /\ TotalDense_valid(call.pre)) =>
        /\ call.res = "Ok"
        /\ call.v.elements = call.pre.elements
        /\ TiedDense_len(call.v) = TotalDense_len(call.pre)
        /\ call.v.orders = call.pre.orders
        /\ \A k \in 1..Len(call.v.ties) : call.v.ties[k] = FALSE

\* --------------------------------------------- TiedDense into CardinalDense

\* TiedRef::iter_groups (GroupIterator, whose source is not under src/): the
\* maximal runs of tied elements from left to right, a run closing at each
\* false tie flag.
RECURSIVE iter_groups(_, _)
iter_groups(order, tied) ==
    IF order = <<>> THEN <<>>
    ELSE LET n == CHOOSE k \in 1..Len(order) :
                      /\ k = Len(order) \/ ~tied[k]
                      /\ \A j \in 1..(k - 1) : tied[j]
         IN <<SubSeq(order, 1, n)>>
            \o iter_groups(SubSeq(order, n + 1, Len(order)),
                           SubSeq(tied, n + 1, Len(tied)))

\* Mutant of CardinalMax: the top score is elements, as the doc comment of
\* try_from has it.
CardinalMax_Elements(elements) == elements

\* let max = value.elements - 1, without overflow checks
CardinalMax(elements) == WrapSub(elements, 1)

\* Mutant of CardinalScoreGroups: a group is scored by the rank of its first
\* element, not by its index.
RECURSIVE CardinalScoreGroups_ByRank(_, _, _, _)
CardinalScoreGroups_ByRank(new_order, groups, i, max) ==
    IF i >= Len(groups) THEN new_order
    ELSE LET rank == Cardinality(UNION {{<<g, j>> : j \in 1..Len(groups[g])} : g \in 1..i})
             score == WrapSub(max, rank)
         IN CardinalScoreGroups_ByRank(
                [k \in 1..Len(new_order) |->
                    IF \E j \in 1..Len(groups[i + 1]) : groups[i + 1][j] = k - 1
                    THEN score ELSE new_order[k]],
                groups, i + 1, max)

\* for (i, group) in order.iter_groups().enumerate(): new_order[c] = max - i
\* for every c of the group.  debug_assert!(max >= i) cannot fail: the order
\* went through TiedRef::new, so it has at most max + 1 groups.
RECURSIVE CardinalScoreGroups(_, _, _, _)
CardinalScoreGroups(new_order, groups, i, max) ==
    IF i >= Len(groups) THEN new_order
    ELSE CardinalScoreGroups(
             [k \in 1..Len(new_order) |->
                 IF \E j \in 1..Len(groups[i + 1]) : groups[i + 1][j] = k - 1
                 THEN WrapSub(max, i) ELSE new_order[k]],
             groups, i + 1, max)

\* No CardinalDense.
NoCardinal == [orders |-> <<>>, elements |-> 0, min |-> 0, max |-> 0]

\* The loop `for order in value.iter()` from order i on: [res, orders,
\* new_order].  new_order is carried from one order to the next.
RECURSIVE CardinalFromOrders(_, _, _, _, _)
CardinalFromOrders(value, i, new_order, orders, max) ==
    IF i >= TiedDense_len(value) THEN [res |-> "Ok", orders |-> orders]
    ELSE LET r == TiedDense_get(value, i)
         IN IF r.res = "panic" THEN [res |-> "panic", orders |-> orders]
            ELSE LET scored == CardinalScoreGroups(
                                   new_order, iter_groups(r.v.order, r.v.tied), 0, max)
                 IN CardinalFromOrders(value, i + 1, scored, orders \o scored, max)

\* impl TryFrom<TiedDense> for CardinalDense: [self, res].  try_reserve_exact
\* fails when the allocator refuses; `value.elements - 1` panics on underflow
\* with overflow checks.
CardinalDense_try_from(value, dbg, alloc) ==
    IF ~TryReserve(0, value.elements * TiedDense_len(value), UsizeBits \div 8, alloc)
    THEN [self |-> NoCardinal, res |-> "Err"]
    ELSE IF value.elements = 0 /\ dbg
    THEN [self |-> NoCardinal, res |-> "panic"]
    ELSE LET max == CardinalMax(value.elements)
             r == CardinalFromOrders(value, 0, [k \in 1..value.elements |-> 0],
                                     <<>>, max)
         IN IF r.res = "panic"
            THEN [self |-> NoCardinal, res |-> "panic"]
            ELSE [self |-> [orders |-> r.orders, elements |-> value.elements,
                            min |-> 0, max |-> max],
                  res |-> "Ok"]

\* CardinalDense::try_from(td): the result is left in call.v
TiedIntoCardinal ==
    /\ Idle
    /\ \E alloc \in BOOLEAN :
         LET r == CardinalDense_try_from(td, debug, alloc)
         IN call' = [op |-> "try_from", res |-> r.res, n |-> 0, v |-> r.self, pre |-> td]
    /\ UNCHANGED <<debug, td, tot, cid>>

NextTiedInto == NextTiedGrow \/ TiedIntoCardinal

SpecTiedInto == InitTied /\ [][NextTiedInto]_vars

\* The index of the tie group of rank r, groups counted from 0 at the top:
\* the number of false flags before rank r.
GroupOfRank(tied, r) == Cardinality({k \in 1..r : ~tied[k]})

C20_Order ==
    [orders |-> <<2, 0, 1, 3>>, ties |-> <<TRUE, FALSE, TRUE>>, elements |-> 4]

MaxCollectItems == MaxCells \div 2

MaxCollectElements == MaxElements \div 2

\* The TiedRefs an iterator yields.
CollectRefs == {w : w \in {v \in TiedRefs : Len(v.order) <= MaxCollectElements}}

\* The loop `for v in ii` of from_iter from item k on: [res, self].  push(v)
\* is unwrapped, so anything but Ok panics.
RECURSIVE CollectRest(_, _, _, _, _, _)
CollectRest(out, items, k, elements, dbg, alloc) ==
    IF k > Len(items) THEN [res |-> "Some", self |-> out]
    ELSE IF Len(items[k].order) # elements
    THEN [res |-> "None", self |-> out]
    ELSE LET r == TiedDense_push(out, items[k], dbg, alloc)
         IN IF r.res # "Ok" THEN [res |-> "panic", self |-> out]
            ELSE CollectRest(r.self, items, k + 1, elements, dbg, alloc)

\* impl FromIterator<TiedRef> for Option<TiedDense>: [res, self] with res
\* "None", "Some" (self the collection) or "panic".
TiedDense_from_iter(items, dbg, alloc) ==
    IF items = <<>> THEN [res |-> "None", self |-> TiedDense_new(0)]
    ELSE LET elements == Len(items[1].order)
             r == TiedDense_push(TiedDense_new(elements), items[1], dbg, alloc)
         IN IF r.res # "Ok" THEN [res |-> "panic", self |-> TiedDense_new(elements)]
            ELSE CollectRest(r.self, items, 2, elements, dbg, alloc)

\* iter.collect::<Option<TiedDense>>(): the result is left in call.v.  `alloc`
\* names the reservation the allocator refuses, if any.
TiedCollect ==
    /\ Idle
    /\ \E n \in 0..MaxCollectItems :
       \E items \in [1..n -> CollectRefs] :
       \E alloc \in {"ok", "orders", "ties"} :
         LET r == TiedDense_from_iter(items, debug, alloc)
         IN call' = [op |-> "from_iter", res |-> r.res, n |-> n, v |-> r.self,
                     pre |-> [items |-> items, alloc |-> alloc]]
    /\ UNCHANGED <<debug, td, tot, cid>>

\* No collection yet, in either build profile.
InitCollect ==
    /\ debug \in BOOLEAN
    /\ td = TiedDense_new(0)
    /\ tot = TotalDense_new(0)
    /\ cid = ChainIDense_new(0)
    /\ call = NoCall

NextCollect == TiedCollect \/ Return

SpecCollect == InitCollect /\ [][NextCollect]_vars

\* C21: collecting an iterator of TiedRef into Option<TiedDense> (no
\* allocation refused) yields None if the iterator is empty or if an item's
\* elements() differs from the first item's; otherwise it yields Some
\* collection whose elements is the common value, whose len() is the number
\* of items, and whose i-th order and tie flags are the i-th item's.
C21_CollectTiedRefs ==
    (call.op = "from_iter" /\ call.pre.alloc = "ok") =>
        LET items == call.pre.items
        IN IF \/ items = <<>>
              \/ \E k \in 1..Len(items) : Len(items[k].order) # Len(items[1].order)
           THEN call.res = "None"
           ELSE /\ call.res = "Some"
                /\ call.v.elements = Len(items[1].order)
                /\ TiedDense_len(call.v) = Len(items)
                /\ \A i \in 0..(Len(items) - 1) :
                      TiedDense_try_get(call.v, i) = [res |-> "Some", v |-> items[i + 1]]

\* --------------------------------------------- TiedDense into SpecificDense

\* TiedRef::winners (TiedIRef::winners, whose source is not under src/): the
\* top tie group, the maximal run of tied elements that starts at rank 0.
TiedRef_winners(v) ==
    IF v.order = <<>> THEN <<>> ELSE iter_groups(v.order, v.tied)[1]

\* Largest entry of a sequence of indices, 0 for none.
MaxOf(s) ==
    IF s = <<>> THEN 0
    ELSE CHOOSE m \in {s[k] : k \in 1..Len(s)} : \A k \in 1..Len(s) : s[k] <= m

\* impl FromIterator<usize> for SpecificDense (source not under src/): the
\* winners as given, over the smallest universe that holds them.
SpecificDense_from_iter(winners) ==
    [orders |-> winners,
     elements |-> IF winners = <<>> THEN 0 ELSE MaxOf(winners) + 1]

\* SpecificDense::add_elements(n) (source not under src/): n more elements,
\* none of them chosen by any order.
SpecificDense_add_elements(s, n) ==
    [s EXCEPT !.elements = (@ + n) % 2^UsizeBits]

\* self.iter().map(|v| *v.winners().choose(rng).unwrap()) from order i on:
\* [res, orders].  draws[i + 1] is what the rng gives for order i; choose
\* takes the winner at that index, reduced below the number of winners.
RECURSIVE SpecificWinners(_, _, _, _)
SpecificWinners(t, draws, i, orders) ==
    IF i >= TiedDense_len(t) THEN [res |-> "Ok", orders |-> orders]
    ELSE LET r == TiedDense_get(t, i)
         IN IF r.res = "panic" THEN [res |-> "panic", orders |-> orders]
            ELSE LET w == TiedRef_winners(r.v)
                 IN IF w = <<>> THEN [res |-> "panic", orders |-> orders]
                    ELSE SpecificWinners(t, draws, i + 1,
                             Append(orders, At(w, draws[i + 1] % Len(w))))

\* No SpecificDense.
NoSpecific == [orders |-> <<>>, elements |-> 0]

\* TiedDense::to_specific_using(rng): [self, res].  `orders.elements -
\* elements` panics on underflow with overflow checks and wraps without them.
TiedDense_to_specific_using(t, draws, dbg) ==
    LET elements == t.elements
        r == SpecificWinners(t, draws, 0, <<>>)
    IN IF r.res = "panic" THEN [self |-> NoSpecific, res |-> "panic"]
       ELSE LET orders == SpecificDense_from_iter(r.orders)
            IN IF dbg /\ orders.elements < elements
               THEN [self |-> NoSpecific, res |-> "panic"]
               ELSE [self |-> SpecificDense_add_elements(
                                  orders, WrapSub(orders.elements, elements)),
                     res |-> "Ok"]

\* td.to_specific_using(rng): the result is left in call.v
TiedToSpecific ==
    /\ Idle
    /\ \E draws \in [1..TiedDense_len(td) -> 0..(td.elements - 1)] :
         LET r == TiedDense_to_specific_using(td, draws, debug)
         IN call' = [op |-> "to_specific_using", res |-> r.res, n |-> 0,
                     v |-> r.self, pre |-> td]
    /\ UNCHANGED <<debug, td, tot, cid>>

NextTiedSpecific == NextTiedGrow \/ TiedToSpecific

SpecTiedSpecific == InitTied /\ [][NextTiedSpecific]_vars

\* Rank r of an order with tie flags `tied` is in the top tie group: every
\* flag before it is true.
InTopGroup(tied, r) == \A k \in 1..r : tied[k]

\* C22: TiedDense::to_specific_using gives exactly one winner per stored
\* order, in order, each winner a member of the top tie group of its order
\* whatever the random choices, and the result's elements equals the source
\* collection's elements.
C22_ToSpecificWinners ==
    (call.op = "to_specific_using" /\ TiedDense_valid(call.pre)) =>
        /\ call.res = "Ok"
        /\ Len(call.v.orders) = TiedDense_len(call.pre)
        /\ \A i \in 0..(TiedDense_len(call.pre) - 1) :
              \E r \in 0..(call.pre.elements - 1) :
                 /\ InTopGroup(TiedTiesAt(call.pre, i), r)
                 /\ At(TiedOrderAt(call.pre, i), r) = At(call.v.orders, i)
        /\ call.v.elements = call.pre.elements

\* ------------------------------------------------------- the relation engine

\* PartialOrderManual::new(elements) (partial_order, whose source is not
\* under src/): no pair is related.  lt holds the pairs <<lesser, greater>>.
PartialOrderManual_new(elements) == [elements |-> elements, lt |-> {}]

\* PartialOrderManual::set(lesser, greater): lesser is strictly below greater
PartialOrderManual_set(manual, lesser, greater) ==
    [manual EXCEPT !.lt = @ \cup {<<lesser, greater>>}]

\* PartialOrderManual::finish_unchecked: the relation as it was set
PartialOrderManual_finish_unchecked(manual) == manual

\* PartialOrder::lt(a, b): a lookup
PartialOrder_lt(po, a, b) == <<a, b>> \in po.lt

\* PartialOrder::le(a, b): every element is equal to itself
PartialOrder_le(po, a, b) == a = b \/ PartialOrder_lt(po, a, b)

\* PartialOrder::eq(a, b)
PartialOrder_eq(po, a, b) == PartialOrder_le(po, a, b) /\ PartialOrder_le(po, b, a)

\* ------------------------------------------------------------------- ChainI

\* Every ChainI over at most MaxElements elements: what ChainI::try_new
\* accepts.
ChainIs ==
    {w : w \in {v \in [elements : 0..MaxElements, order : RawOrders] :
                    unique_and_bounded(v.elements, v.order)}}

\* Mutant of ChainISet: the arguments of set are exchanged.
ChainISet_Exchanged(manual, e1, e2) == PartialOrderManual_set(manual, e1, e2)

\* manual.set(*e2, *e1): the later element e2 is below the earlier e1
ChainISet(manual, e1, e2) == PartialOrderManual_set(manual, e2, e1)

\* for e2 in &self.order[(i1 + 1)..] { manual.set(*e2, *e1) }, from index k on
RECURSIVE ChainISetLater(_, _, _, _)
ChainISetLater(manual, order, i1, k) ==
    IF k >= Len(order) THEN manual
    ELSE ChainISetLater(ChainISet(manual, At(order, i1), At(order, k)),
                        order, i1, k + 1)

\* for (i1, e1) in self.order.iter().enumerate(), from index i1 on
RECURSIVE ChainISetAll(_, _, _)
ChainISetAll(manual, order, i1) ==
    IF i1 >= Len(order) THEN manual
    ELSE ChainISetAll(ChainISetLater(manual, order, i1, i1 + 1), order, i1 + 1)

\* ChainI::to_partial
ChainI_to_partial(c) ==
    PartialOrderManual_finish_unchecked(
        ChainISetAll(PartialOrderManual_new(c.elements), c.order, 0))

\* c.to_partial() for a ChainI c: the relation is left in call.v
ChainIToPartial ==
    /\ Idle
    /\ \E c \in ChainIs :
         call' = [op |-> "ChainI::to_partial", res |-> "Ok", n |-> 0,
                  v |-> ChainI_to_partial(c), pre |-> c]
    /\ UNCHANGED <<debug, td, tot, cid>>

\* Element x is stored in the order.
Stored(order, x) == \E k \in 1..Len(order) : order[k] = x

C24_StoredAboveNonStored ==
    call.op = "ChainI::to_partial" =>
        \A p, q \in 0..(call.pre.elements - 1) :
            (Stored(call.pre.order, p) /\ ~Stored(call.pre.order, q)) =>
                PartialOrder_lt(call.v, q, p)

\* --------------------------------------------------------------------- Tied

\* Every Tied over at most MaxElements elements: what Tied::try_new accepts.
Tieds == TiedRefs

\* Mutant of TiedSeen: only the last group is remembered.
TiedSeen_LastGroup(seen, group) == group

\* seen.extend_from_slice(group)
TiedSeen(seen, group) == seen \o group

\* for j in &seen { manual.set(*i, *j) }, from index k on
RECURSIVE TiedSetSeen(_, _, _, _)
TiedSetSeen(manual, i, seen, k) ==
    IF k >= Len(seen) THEN manual
    ELSE TiedSetSeen(PartialOrderManual_set(manual, i, At(seen, k)), i, seen, k + 1)

\* for i in group { ... }, from index g on
RECURSIVE TiedSetGroup(_, _, _, _)
TiedSetGroup(manual, group, seen, g) ==
    IF g >= Len(group) THEN manual
    ELSE TiedSetGroup(TiedSetSeen(manual, At(group, g), seen, 0), group, seen, g + 1)

\* for group in self.as_ref().iter_groups() { ... }, from group n on
RECURSIVE TiedSetGroups(_, _, _, _)
TiedSetGroups(manual, groups, seen, n) ==
    IF n >= Len(groups) THEN manual
    ELSE TiedSetGroups(TiedSetGroup(manual, At(groups, n), seen, 0), groups,
                       TiedSeen(seen, At(groups, n)), n + 1)

\* Tied::to_partial
Tied_to_partial(t) ==
    PartialOrderManual_finish_unchecked(
        TiedSetGroups(PartialOrderManual_new(Len(t.order)),
                      iter_groups(t.order, t.tied), <<>>, 0))

\* t.to_partial() for a Tied t: the relation is left in call.v
TiedToPartial ==
    /\ Idle
    /\ \E t \in Tieds :
         call' = [op |-> "Tied::to_partial", res |-> "Ok", n |-> 0,
                  v |-> Tied_to_partial(t), pre |-> t]
    /\ UNCHANGED <<debug, td, tot, cid>>

InitPartial ==
    /\ debug \in BOOLEAN
    /\ td = TiedDense_new(0)
    /\ tot = TotalDense_new(0)
    /\ cid = ChainIDense_new(0)
    /\ call = NoCall

NextPartial == ChainIToPartial \/ TiedToPartial \/ Return

SpecPartial == InitPartial /\ [][NextPartial]_vars

\* The tie group of element x, counted from the top: the number of untied
\* boundaries before its position.
TieGroupOf(t, x) ==
    LET p == CHOOSE k \in 1..Len(t.order) : t.order[k] = x
    IN Cardinality({k \in 1..(p - 1) : ~t.tied[k]})

\* C25: Tied::to_partial yields an antisymmetric, transitively closed
\* relation in which x is strictly below y exactly when x lies in a later tie
\* group than y.
C25_TiedToPartial ==
    call.op = "Tied::to_partial" =>
        LET t == call.pre
            po == call.v
            E == 0..(Len(t.order) - 1)
        IN /\ \A x, y \in E :
                 (PartialOrder_le(po, x, y) /\ PartialOrder_le(po, y, x)) => x = y
           /\ \A x, y, z \in E :
                 (PartialOrder_lt(po, x, y) /\ PartialOrder_lt(po, y, z)) =>
                     PartialOrder_lt(po, x, z)
           /\ \A x, y \in E :
                 PartialOrder_lt(po, x, y) <=> TieGroupOf(t, x) > TieGroupOf(t, y)

\* C25 witness: four elements in three groups, the middle one a tie of two.
C25_Witness ==
    /\ call.op = "Tied::to_partial"
    /\ call.pre.tied = <<FALSE, TRUE, FALSE>>
    /\ Cardinality(call.v.lt) = 5

\* ------------------------------------------------ Tied::try_new and friends

\* Longest order, and largest value in one, handed to try_new.
MaxNewLen == MaxElements \div 2 + 1

\* The sequences a caller may hand to try_new and new: orders with repeated
\* and out-of-range values, tie lists of every length.
NewOrders == UNION {[1..n -> 0..MaxNewLen] : n \in 0..MaxNewLen}

NewTies == UNION {[1..n -> BOOLEAN] : n \in 0..MaxNewLen}

\* Mutant of Tied_correct_len: the case of two empty lists is left out.
Tied_correct_len_NonEmpty(order, tied) == Len(tied) + 1 = Len(order)

\* let correct_len = order.is_empty() && tied.is_empty()
\*                   || tied.len() + 1 == order.len();
Tied_correct_len(order, tied) ==
    \/ Len(order) = 0 /\ Len(tied) = 0
    \/ Len(tied) + 1 = Len(order)

\* Tied::try_new
Tied_try_new(order, tied) ==
    IF Tied_correct_len(order, tied) /\ unique_and_bounded(Len(order), order)
    THEN [res |-> "Some", v |-> [order |-> order, tied |-> tied]]
    ELSE [res |-> "None", v |-> [order |-> <<>>, tied |-> <<>>]]

\* Option::unwrap as Tied::new and TiedRef::new use it: None panics
UnwrapNew(r) == IF r.res = "Some" THEN [r EXCEPT !.res = "Ok"]
                ELSE [r EXCEPT !.res = "panic"]

\* Tied::new
Tied_new(order, tied) == UnwrapNew(Tied_try_new(order, tied))

\* TiedRef::try_new with its result as an Option
TiedRef_try_new_Option(order, tied) ==
    IF TiedRef_try_new(order, tied)
    THEN [res |-> "Some", v |-> [order |-> order, tied |-> tied]]
    ELSE [res |-> "None", v |-> [order |-> <<>>, tied |-> <<>>]]

\* TiedRef::new
TiedRef_new(order, tied) == UnwrapNew(TiedRef_try_new_Option(order, tied))

\* The call record of a constructor: its arguments are kept in pre.
NewCall(op, r, order, tied) ==
    [op |-> op, res |-> r.res, n |-> 0, v |-> r.v,
     pre |-> [order |-> order, tied |-> tied]]

TiedTryNew ==
    /\ Idle
    /\ \E order \in NewOrders, tied \in NewTies :
         call' = NewCall("Tied::try_new", Tied_try_new(order, tied), order, tied)
    /\ UNCHANGED <<debug, td, tot, cid>>

TiedNew ==
    /\ Idle
    /\ \E order \in NewOrders, tied \in NewTies :
         call' = NewCall("Tied::new", Tied_new(order, tied), order, tied)
    /\ UNCHANGED <<debug, td, tot, cid>>

TiedRefTryNew ==
    /\ Idle
    /\ \E order \in NewOrders, tied \in NewTies :
         call' = NewCall("TiedRef::try_new", TiedRef_try_new_Option(order, tied),
                         order, tied)
    /\ UNCHANGED <<debug, td, tot, cid>>

TiedRefNew ==
    /\ Idle
    /\ \E order \in NewOrders, tied \in NewTies :
         call' = NewCall("TiedRef::new", TiedRef_new(order, tied), order, tied)
    /\ UNCHANGED <<debug, td, tot, cid>>

InitNew ==
    /\ debug \in BOOLEAN
    /\ td = TiedDense_new(0)
    /\ tot = TotalDense_new(0)
    /\ cid = ChainIDense_new(0)
    /\ call = NoCall

NextNew == TiedTryNew \/ TiedNew \/ TiedRefTryNew \/ TiedRefNew \/ Return

SpecNew == InitNew /\ [][NextNew]_vars

\* order is a permutation of 0..Len(order)-1
IsPermutation(order) ==
    /\ {order[k] : k \in 1..Len(order)} = 0..(Len(order) - 1)
    /\ Cardinality({order[k] : k \in 1..Len(order)}) = Len(order)

\* What the constructors are said to accept.
StatedValid(order, tied) ==
    /\ IsPermutation(order)
    /\ \/ Len(tied) = Len(order) - 1
       \/ order = <<>> /\ tied = <<>>

\* C26: Tied::try_new and TiedRef::try_new return Some exactly when order is
\* a permutation of 0..order.len() and tied.len() == order.len()-1 (or both
\* are empty), and None otherwise; Tied::new and TiedRef::new panic exactly in
\* the None cases.
C26_TryNewValid ==
    /\ call.op \in {"Tied::try_new", "TiedRef::try_new"} =>
         /\ call.res \in {"Some", "None"}
         /\ call.res = "Some" <=> StatedValid(call.pre.order, call.pre.tied)
    /\ call.op \in {"Tied::new", "TiedRef::new"} =>
         /\ call.res \in {"Ok", "panic"}
         /\ call.res = "panic" <=> ~StatedValid(call.pre.order, call.pre.tied)

\* C26 witness: try_new has refused a permutation with one tie flag too many.
C26_Witness ==
    /\ call.op = "Tied::try_new"
    /\ call.res = "None"
    /\ call.pre.order = <<1, 0>>
    /\ Len(call.pre.tied) = 2

\* ------------------------------------------------- structurally empty at 0

\* C27: in every state of a TotalDense or TiedDense reached from
\* new(elements) by push/add, generate_uniform and remove_element calls that
\* return, elements() == 0 implies that all backing arrays (orders, and ties
\* for TiedDense) are empty.
C27_ZeroElementsEmpty ==
    call.res \notin {"panic", "abort"} =>
        /\ td.elements = 0 => (td.orders = <<>> /\ td.ties = <<>>)
        /\ tot.elements = 0 => tot.orders = <<>>

\* --------------------------------------------- ChainDense into ChainIDense

\* ChainDense::len (collections/chain, whose source is not under src/): the
\* fixed-width total-order collection holds orders.len() / elements orders,
\* and none when elements is 0.
ChainDense_len(value) ==
    IF value.elements = 0 THEN 0 ELSE Len(value.orders) \div value.elements

\* Every valid ChainDense of at most MaxCells cells: each block of elements
\* cells is a permutation, and a collection over no elements is empty.
ChainDenses ==
    {w : w \in {v \in [elements : 0..MaxChainElements,
                       orders : UNION {[1..n -> 0..(MaxChainElements - 1)] :
                                           n \in 0..MaxCells}] :
                    /\ Len(v.orders) = ChainDense_len(v) * v.elements
                    /\ \A i \in 0..(ChainDense_len(v) - 1) :
                          unique_and_bounded(v.elements,
                              Slice(v.orders, i * v.elements, (i + 1) * v.elements))}}

\* Mutant of ChainDenseEnds: the offsets are those of the starts of the orders.
ChainDenseEnds_Starts(orders, elements) ==
    [k \in 1..orders |-> WrapMul(k - 1, elements)]

\* (0..orders).map(|i| (i + 1) * value.elements).collect()
ChainDenseEnds(orders, elements) ==
    [k \in 1..orders |-> WrapMul(k, elements)]

\* impl From<ChainDense> for ChainIDense
ChainIDense_from_ChainDense(value) ==
    [orders |-> value.orders,
     order_end |-> ChainDenseEnds(ChainDense_len(value), value.elements),
     elements |-> value.elements]

\* ChainIDense::from(value) for a ChainDense value: cid becomes the result
ChainFromDense ==
    /\ Idle
    /\ \E value \in ChainDenses :
         /\ cid' = ChainIDense_from_ChainDense(value)
         /\ call' = [op |-> "from", res |-> "Ok", n |-> 0, v |-> NoOrder,
                     pre |-> value]
    /\ UNCHANGED <<debug, td, tot>>

NextChainFrom == NextChain \/ ChainFromDense

SpecChainFrom == InitChain /\ [][NextChainFrom]_vars

\* C28: in every state of a ChainIDense reached by push and generate_uniform
\* calls, and in the result of converting a ChainDense, the end-offsets are
\* non-decreasing and the final offset equals the length of the backing
\* orders array (no offsets implies an empty array).
C28_ChainOffsets ==
    /\ \A k \in 1..(Len(cid.order_end) - 1) : cid.order_end[k] <= cid.order_end[k + 1]
    /\ IF cid.order_end = <<>> THEN cid.orders = <<>>
       ELSE cid.order_end[Len(cid.order_end)] = Len(cid.orders)

\* C28 witness: a ChainDense of two orders over three elements has been
\* converted.
C28_Witness ==
    /\ call.op = "from"
    /\ cid.elements = 3
    /\ cid.order_end = <<3, 6>>
    /\ Len(cid.orders) = 6

\* ------------------------------------------------------ failed reservation

\* C29: for every dense kind (TotalDense::add, TiedDense::push,
\* ChainIDense::push), when reserving capacity for the pushed order fails the
\* operation returns AddError::Alloc (never AddError::Elements, never an
\* abort) and nothing has been appended: the collection equals its prior
\* state.  In the model a failed reservation ends the call with Alloc or with
\* an abort, and with nothing else.
C29_AllocFailureReturnsAlloc ==
    call.op \in {"push", "add"} =>
        /\ call.res # "abort"
        /\ call.res = "Alloc" => (call.pre = td \/ call.pre = tot \/ call.pre = cid)

\* ----------------------------------------------------------- clone_from_ref

\* The targets and sources of clone_from_ref: orders of at most MaxNewLen
\* elements.
CloneChainIs == {c \in ChainIs : c.elements <= MaxNewLen}

CloneTieds == {t \in Tieds : Len(t.order) <= MaxNewLen}

\* <[T]>::clone_from_slice(src): the two slices must have the same length,
\* otherwise the call panics and nothing is copied
clone_from_slice(dst, src) ==
    IF Len(dst) # Len(src) THEN [res |-> "panic", v |-> dst]
    ELSE [res |-> "Ok", v |-> src]

\* ChainI::clone_from_ref
ChainI_clone_from_ref(self, source) ==
    LET o == clone_from_slice(self.order, source.order)
    IN IF o.res = "panic" THEN [res |-> "panic", self |-> self]
       ELSE [res |-> "Ok",
             self |-> [elements |-> source.elements, order |-> o.v]]

\* Tied::clone_from_ref
Tied_clone_from_ref(self, source) ==
    LET o == clone_from_slice(self.order, source.order)
        t == clone_from_slice(self.tied, source.tied)
    IN IF o.res = "panic" THEN [res |-> "panic", self |-> self]
       ELSE IF t.res = "panic"
       THEN [res |-> "panic", self |-> [self EXCEPT !.order = o.v]]
       ELSE [res |-> "Ok", self |-> [order |-> o.v, tied |-> t.v]]

\* c.clone_from_ref(source) for a ChainI c: the target afterwards is in call.v
ChainICloneFromRef ==
    /\ Idle
    /\ \E c \in CloneChainIs, source \in CloneChainIs :
         LET r == ChainI_clone_from_ref(c, source)
         IN call' = [op |-> "ChainI::clone_from_ref", res |-> r.res, n |-> 0,
                     v |-> r.self, pre |-> [self |-> c, source |-> source]]
    /\ UNCHANGED <<debug, td, tot, cid>>

\* t.clone_from_ref(source) for a Tied t: the target afterwards is in call.v
TiedCloneFromRef ==
    /\ Idle
    /\ \E t \in CloneTieds, source \in CloneTieds :
         LET r == Tied_clone_from_ref(t, source)
         IN call' = [op |-> "Tied::clone_from_ref", res |-> r.res, n |-> 0,
                     v |-> r.self, pre |-> [self |-> t, source |-> source]]
    /\ UNCHANGED <<debug, td, tot, cid>>

InitClone ==
    /\ debug \in BOOLEAN
    /\ td = TiedDense_new(0)
    /\ tot = TotalDense_new(0)
    /\ cid = ChainIDense_new(0)
    /\ call = NoCall

NextClone == ChainICloneFromRef \/ TiedCloneFromRef \/ Return

SpecClone == InitClone /\ [][NextClone]_vars

\* C30: for every ChainI c and every ChainIRef source, c.clone_from_ref(source)
\* completes and leaves c equal to source (same elements, same order);
\* likewise Tied::clone_from_ref leaves the Tied's order and tied equal to the
\* source's, whatever the previous lengths of the target.
C30_CloneFromRefEqualsSource ==
    call.op \in {"ChainI::clone_from_ref", "Tied::clone_from_ref"} =>
        /\ call.res = "Ok"
        /\ call.v = call.pre.source

====
